---- MODULE Spec2Model ----
(***************************************************************************)
(* A model of metalogistic/main.py: the MetaLogistic distribution object,  *)
(* its construction pipeline (linear fit, feasibility check, numeric       *)
(* refinement) and its evaluation methods (_quantile, densitySmallM, the   *)
(* three feasibility scores).                                              *)
(*                                                                         *)
(* Numbers.  A Python/NumPy float is modelled as a pair <<n, d>>: the      *)
(* exact rational n/d in lowest terms when d > 0, +inf as <<1,0>>, -inf as *)
(* <<-1,0>> and NaN as <<0,0>>.  Rounding is not modelled; zero carries no *)
(* sign.  np.log(p/(1-p)) is read from a table of the true values to one   *)
(* decimal on the probabilities k/20;  np.exp and the other uses of np.log *)
(* are replaced by monotone functions with the same sign and the same      *)
(* fixed point (ExpF, LogF).                                               *)
(*                                                                         *)
(* Python scalars and NumPy scalars differ in one way that the code        *)
(* depends on: a Python division by zero raises ZeroDivisionError, a NumPy *)
(* one yields inf or nan.  The flags p_np and a_np carry that difference.  *)
(*                                                                         *)
(* Intermediate values are passed as operator parameters rather than bound *)
(* by LET, which keeps the expanded size of the next-state relation small. *)
(***************************************************************************)
EXTENDS Integers, Sequences, FiniteSets, TLC

----------------------------------------------------------------------------
(* Float arithmetic                                                        *)

Abs(x) == IF x < 0 THEN -x ELSE x

Sign(x) == IF x < 0 THEN -1 ELSE IF x > 0 THEN 1 ELSE 0

RECURSIVE GCD(_, _)
GCD(x, y) == IF y = 0 THEN x ELSE GCD(y, x % y)

\* n/d in lowest terms, for d > 0
Lowest(n, d) == <<n \div GCD(Abs(n), d), d \div GCD(Abs(n), d)>>

Norm(n, d) ==
    IF d = 0 THEN <<Sign(n), 0>>
    ELSE IF d < 0 THEN Lowest(-n, -d)
    ELSE Lowest(n, d)

F(i) == <<i, 1>>

PosInf == <<1, 0>>

NegInf == <<-1, 0>>

NaN == <<0, 0>>

IsNaN(x) == x = NaN

IsFinite(x) == x[2] # 0

\* x + y for finite x and y, g the gcd of their denominators
AddFinite(x, y, g) ==
    Lowest(x[1] * (y[2] \div g) + y[1] * (x[2] \div g), (x[2] \div g) * y[2])

\* inf + -inf and anything + nan are nan
Add(x, y) ==
    IF x[2] # 0 /\ y[2] # 0 THEN AddFinite(x, y, GCD(x[2], y[2]))
    ELSE IF x[2] # 0 THEN y
    ELSE IF y[2] # 0 \/ x = y THEN x
    ELSE NaN

Neg(x) == <<-x[1], x[2]>>

Sub(x, y) == Add(x, Neg(y))

\* x * y for finite x and y, after cancelling g = gcd(|x1|, y2) and h = gcd(|y1|, x2)
MulFinite(x, y, g, h) ==
    <<(x[1] \div g) * (y[1] \div h), (x[2] \div h) * (y[2] \div g)>>

\* inf * 0 and anything * nan are nan
Mul(x, y) ==
    IF x[2] = 0 \/ y[2] = 0 THEN <<Sign(x[1] * y[1]), 0>>
    ELSE MulFinite(x, y, GCD(Abs(x[1]), y[2]), GCD(Abs(y[1]), x[2]))

\* NumPy's 1/x: 1/0 is inf, 1/inf is 0, 1/nan is nan.
Recip(x) ==
    IF x = NaN THEN NaN
    ELSE IF x[2] = 0 THEN F(0)
    ELSE IF x[1] = 0 THEN PosInf
    ELSE IF x[1] < 0 THEN <<-x[2], -x[1]>>
    ELSE <<x[2], x[1]>>

\* NumPy's x/y: 0/0 and inf/inf are nan.
Div(x, y) == Mul(x, Recip(y))

\* x < y; every comparison with nan is false
Lt(x, y) ==
    IF x[2] = 0 /\ y[2] = 0 THEN x[1] < 0 /\ y[1] > 0
    ELSE x[1] * y[2] < y[1] * x[2]

Le(x, y) == Lt(x, y) \/ (x = y /\ x # NaN)

RECURSIVE Pow(_, _)
Pow(x, k) == IF k = 0 THEN F(1) ELSE Mul(x, Pow(x, k - 1))

AbsF(x) == <<Abs(x[1]), x[2]>>

\* Rounding away from zero to a multiple of 1/1000.  Sums over the sampling grid
\* round their addends this way (a float sum is rounded too): an addend keeps its
\* sign, and only 0 rounds to 0.
RoundOut(x) ==
    IF x[2] = 0 THEN x
    ELSE Norm(Sign(x[1]) * ((Abs(x[1]) * 1000 + x[2] - 1) \div x[2]), 1000)

\* np.log(p/(1-p)) to one decimal, times ten, at p = k/20 for k = 1..19
LogitTable ==
    <<-29, -22, -17, -14, -11, -8, -6, -4, -2, 0,
      2, 4, 6, 8, 11, 14, 17, 22, 29>>

\* Stand-in for np.exp: 2^floor(x).  Positive, non-decreasing, 1 at 0; its values
\* and their reciprocals keep every later product within TLC's integers.
ExpF(x) ==
    IF x[2] = 0 THEN (IF x = PosInf THEN PosInf ELSE IF x = NegInf THEN F(0) ELSE NaN)
    ELSE IF x[1] >= 0 THEN <<2 ^ (x[1] \div x[2]), 1>>
    ELSE <<1, 2 ^ (-(x[1] \div x[2]))>>

\* Stand-in for np.log on arbitrary arguments: x - 1 from 1 on and 1 - 1/x below;
\* strictly increasing, LogF(1) = 0, LogF(0) = -inf, nan below 0.
LogF(x) ==
    IF x[1] < 0 \/ x = NaN THEN NaN
    ELSE IF x[2] = 0 THEN PosInf
    ELSE IF x[1] = 0 THEN NegInf
    ELSE Norm(x[1] - x[2], IF x[1] >= x[2] THEN x[2] ELSE x[1])

----------------------------------------------------------------------------
(* Results of a call: a value, or the exception it raised                  *)

Ok(v) == [err |-> "none", val |-> v]

Raise(e) == [err |-> e, val |-> NaN]

\* The function f with its values computed once
Table(f) == f @@ <<>>

\* The first exception among a sequence of results, "none" if there is none
RECURSIVE FirstError(_, _)
FirstError(rs, i) ==
    IF i > Len(rs) THEN "none"
    ELSE IF rs[i].err # "none" THEN rs[i].err
    ELSE FirstError(rs, i + 1)

----------------------------------------------------------------------------
(* Evaluation methods.  `self` is a record of the attributes they read:    *)
(* a_vector (integer coefficients), term, boundedness, lbound, ubound      *)
(* (<<>> for None, <<v>> for a value) and a_np (the coefficients are NumPy *)
(* floats, as after a fit, rather than Python numbers).                    *)

None == <<>>

Some(v) == <<v>>

\* A variant of IsBoundedBelow that forgets the doubly-bounded case
IsBoundedBelow_mutant(self) == self.boundedness = "lower"

IsBoundedBelow(self) == self.boundedness = "lower" \/ self.boundedness = "bounded"

IsBoundedAbove(self) == self.boundedness = "upper" \/ self.boundedness = "bounded"

\* a = {i + 1: element for i, element in enumerate(self.a_vector)}
a(self, i) == F(self.a_vector[i])

\* np.log(p / (1 - p)) as NumPy computes it: -inf at 0, inf at 1
ln_p_term(p) ==
    IF p = F(0) THEN NegInf
    ELSE IF p = F(1) THEN PosInf
    ELSE IF Lt(p, F(0)) \/ Lt(F(1), p) THEN NaN
    ELSE Norm(LogitTable[(p[1] * 20) \div p[2]], 10)

p05_term(p) == Sub(p, Norm(1, 2))

p1p_term(p) == Mul(p, Sub(F(1), p))

\* The highest index of `a` that the recurrences read: a[3] is read whatever the term.
HighestIndexRead(self) == IF self.term > 3 THEN self.term ELSE 3

\* quantile_functions[n] of _quantile, from ln_p_term and p05_term
RECURSIVE quantile_functions(_, _, _, _)
quantile_functions(self, lnp, p05, n) ==
    IF n = 2 THEN Add(a(self, 1), Mul(a(self, 2), lnp))
    ELSE Add(quantile_functions(self, lnp, p05, n - 1),
             IF n = 3 THEN Mul(Mul(a(self, 3), p05), lnp)
             ELSE IF n = 4 THEN Mul(a(self, 4), p05)
             ELSE IF n % 2 # 0 THEN Mul(a(self, n), Pow(p05, (n - 1) \div 2))
             ELSE Mul(Mul(a(self, n), Pow(p05, (n \div 2) - 1)), lnp))

\* Line 352: (lbound + ubound * e) / (1 + e) with e = np.exp(quantile_function)
BoundedQuantile(self, e) ==
    Div(Add(F(self.lbound[1]), Mul(F(self.ubound[1]), e)), Add(F(1), e))

\* Lines 346-352: the inverse Bounds Transform at the end of _quantile
BoundQuantile(self, quantile_function, force_unbounded) ==
    IF force_unbounded \/ self.boundedness = "False" THEN quantile_function
    ELSE IF self.boundedness = "lower"
        THEN Add(F(self.lbound[1]), ExpF(quantile_function))
    ELSE IF self.boundedness = "upper"
        THEN Sub(F(self.ubound[1]), ExpF(Neg(quantile_function)))
    ELSE BoundedQuantile(self, ExpF(quantile_function))

_quantile(self, probability, force_unbounded) ==
    IF Le(probability, F(0)) THEN
        (IF IsBoundedBelow(self) /\ ~force_unbounded
         THEN Ok(F(self.lbound[1])) ELSE Ok(NegInf))
    ELSE IF Le(F(1), probability) THEN
        (IF IsBoundedAbove(self) /\ ~force_unbounded
         THEN Ok(F(self.ubound[1])) ELSE Ok(PosInf))
    ELSE IF Len(self.a_vector) < HighestIndexRead(self) \/ self.term < 2
        THEN Raise("KeyError")
    ELSE Ok(BoundQuantile(self,
                quantile_functions(self, ln_p_term(probability), p05_term(probability),
                                   self.term),
                force_unbounded))

\* density_functions[n] of densitySmallM, as NumPy computes it from
\* density_functions[2] = d2: each step is 1/(1/previous + contribution).  The
\* even steps from 6 on never yield a value (see DensityLoopError).
RECURSIVE density_functions(_, _, _, _, _, _)
density_functions(self, lnp, p05, p1p, d2, n) ==
    IF n = 2 THEN d2
    ELSE Recip(Add(Recip(density_functions(self, lnp, p05, p1p, d2, n - 1)),
                   IF n = 3 THEN Mul(a(self, 3), Add(Div(p05, p1p), lnp))
                   ELSE IF n = 4 THEN a(self, 4)
                   ELSE Mul(Mul(a(self, n), F((n - 1) \div 2)),
                            Pow(p05, (n - 3) \div 2))))

\* The loop `for n in range(5, self.term + 1)` of densitySmallM: the first exception
\* it raises, "none" if it completes.  For even n the code calls a[n] as a function.
RECURSIVE DensityLoopError(_, _)
DensityLoopError(self, n) ==
    IF n > self.term THEN "none"
    ELSE IF n > Len(self.a_vector) THEN "KeyError"
    ELSE IF n % 2 = 0 THEN "TypeError"
    ELSE DensityLoopError(self, n + 1)

\* Lines 382-401 of densitySmallM: the first exception they raise on
\* cumulative_prob = p in [0, 1], "none" if they complete.  A division by zero raises
\* only between Python numbers: density_functions[2] is a Python float exactly when
\* neither p nor the coefficients are NumPy values.
DensityError(self, p, p_np) ==
    \* line 382: cumulative_prob / (1 - cumulative_prob)
    IF p = F(1) /\ ~p_np THEN "ZeroDivisionError"
    \* line 386: p1p_term/a[2]
    ELSE IF Len(self.a_vector) < 2 THEN "KeyError"
    ELSE IF a(self, 2) = F(0) /\ ~p_np /\ ~self.a_np THEN "ZeroDivisionError"
    \* line 387: 1/density_functions[2], then a[3], then p05_term/p1p_term
    ELSE IF Div(p1p_term(p), a(self, 2)) = F(0) /\ ~p_np /\ ~self.a_np
        THEN "ZeroDivisionError"
    ELSE IF Len(self.a_vector) < 3 THEN "KeyError"
    ELSE IF p1p_term(p) = F(0) /\ ~p_np THEN "ZeroDivisionError"
    \* line 389
    ELSE IF self.term > 3 /\ Len(self.a_vector) < 4 THEN "KeyError"
    \* line 401: density_functions[self.term]
    ELSE IF self.term < 2 THEN "KeyError"
    \* lines 391-399
    ELSE DensityLoopError(self, 5)

\* A variant of Inside that takes in the two ends
Inside_mutant(p) == Le(F(0), p) /\ Le(p, F(1))

\* 0 < cumulative_prob < 1
Inside(p) == Lt(F(0), p) /\ Lt(p, F(1))

\* Line 421, with x_unbounded = np.exp(quantile)
BoundedDensity(self, density_function, x_unbounded) ==
    Div(Mul(density_function, Pow(Add(F(1), x_unbounded), 2)),
        Mul(F(self.ubound[1] - self.lbound[1]), x_unbounded))

\* Lines 402-426 of densitySmallM: the Jacobian of the Bounds Transform's inverse.
\* q is self._quantile(cumulative_prob, force_unbounded=True).
BoundDensity(self, p, density_function, q, force_unbounded) ==
    IF force_unbounded \/ self.boundedness = "False" THEN Ok(density_function)
    ELSE IF self.boundedness = "lower" THEN
        (IF Inside(p) THEN Ok(Mul(density_function, ExpF(Neg(q))))
         ELSE IF p = F(0) THEN Ok(F(0))
         ELSE Raise("ValueError: cannot be equal to 1 with a lower-bounded distribution"))
    ELSE IF self.boundedness = "upper" THEN
        (IF Inside(p) THEN Ok(Mul(density_function, ExpF(q)))
         ELSE IF p = F(1) THEN Ok(F(0))
         ELSE Raise("ValueError: cannot be equal to 0 with a upper-bounded distribution"))
    ELSE IF Inside(p) THEN Ok(BoundedDensity(self, density_function, ExpF(q)))
    ELSE Ok(F(0))

\* Lines 386-426 of densitySmallM where they raise nothing before line 402
DensityValue(self, p, force_unbounded, lnp, p05, p1p) ==
    BoundDensity(self, p,
        density_functions(self, lnp, p05, p1p, Div(p1p, a(self, 2)), self.term),
        quantile_functions(self, lnp, p05, self.term),
        force_unbounded)

\* The result of densitySmallM once lines 382-401 have raised e or completed
DensityResult(self, p, force_unbounded, e) ==
    IF e # "none" THEN Raise(e)
    ELSE DensityValue(self, p, force_unbounded, ln_p_term(p), p05_term(p), p1p_term(p))

\* densitySmallM on a scalar.  p_np: the argument is a NumPy scalar (as when the
\* method maps itself over an array) rather than a Python number.
densitySmallM(self, cumulative_prob, force_unbounded, p_np) ==
    IF ~(Le(F(0), cumulative_prob) /\ Le(cumulative_prob, F(1))) THEN
        Raise("ValueError: must be between 0 and 1")
    ELSE IF self.boundedness = "False"
            /\ (cumulative_prob = F(0) \/ cumulative_prob = F(1)) THEN
        Raise("ValueError: cannot be equal to 0 and 1 for an unbounded distribution")
    ELSE DensityResult(self, cumulative_prob, force_unbounded,
                       DensityError(self, cumulative_prob, p_np))

----------------------------------------------------------------------------
(* Feasibility scores.  The code samples 100 (or 200) probabilities in     *)
(* [0.001, 0.999]; the model samples 9 (or 17) in [0.1, 0.9], which keeps  *)
(* every sampled probability on the table of np.log.                       *)

\* np.linspace(start, stop, num) as a sequence
linspace(start, stop, num) ==
    Table([i \in 1..num |->
              Add(start, Div(Mul(F(i - 1), Sub(stop, start)), F(num - 1)))])

\* quantile(probability) = _ppf(probability) on an array: _quantile of each element
quantile(self, ps) == Table([i \in 1..Len(ps) |-> _quantile(self, ps[i], FALSE)])

\* Lines 214-216: what one item adds to the score, from diff = item - prev
Penalty(diff) ==
    IF Lt(diff, F(0)) THEN RoundOut(LogF(Sub(F(1), diff))) ELSE F(0)

\* Lines 211-217: the loop over xs_to_check from its i-th item
RECURSIVE SumNegativeIncrements(_, _)
SumNegativeIncrements(xs, i) ==
    IF i > Len(xs) THEN F(0)
    ELSE Add(Penalty(Sub(xs[i].val, IF i = 1 THEN NegInf ELSE xs[i - 1].val)),
             SumNegativeIncrements(xs, i + 1))

\* Lines 209-218 from xs_to_check, the results of quantile on ps_to_check
ScoreOfQuantiles(xs_to_check) ==
    IF FirstError(xs_to_check, 1) # "none" THEN Raise(FirstError(xs_to_check, 1))
    ELSE Ok(SumNegativeIncrements(xs_to_check, 1))

infeasibilityScoreQuantileSumNegativeIncrements(self) ==
    ScoreOfQuantiles(quantile(self, linspace(Norm(1, 10), Norm(9, 10), 17)))

\* One densities_reciprocal below zero, or 0 in its place
NegativePart(densities_reciprocal) ==
    IF Lt(densities_reciprocal, F(0)) THEN RoundOut(densities_reciprocal) ELSE F(0)

\* np.sum(densities_reciprocal[densities_reciprocal < 0])
RECURSIVE SumNegative(_, _)
SumNegative(densities_to_check, i) ==
    IF i > Len(densities_to_check) THEN F(0)
    ELSE Add(NegativePart(Recip(densities_to_check[i].val)),
             SumNegative(densities_to_check, i + 1))

\* Lines 226-229 from densities_to_check
ScoreOfDensities(densities_to_check) ==
    IF FirstError(densities_to_check, 1) # "none"
        THEN Raise(FirstError(densities_to_check, 1))
    ELSE Ok(AbsF(SumNegative(densities_to_check, 1)))

\* Lines 365-366: densitySmallM on an array maps itself over the elements
DensitiesOn(self, ps) ==
    Table([i \in 1..Len(ps) |-> densitySmallM(self, ps[i], FALSE, TRUE)])

infeasibilityScoreSmallMReciprocal(self) ==
    ScoreOfDensities(DensitiesOn(self, linspace(Norm(1, 10), Norm(9, 10), 9)))

\* The quantile at the j-th point of a grid with quantiles qs; beyond the grid's
\* ends, 0 and 1, the quantile is what it is at the end.
QuantileAt(qs, j) ==
    qs[IF j < 1 THEN 1 ELSE IF j > Len(qs) THEN Len(qs) ELSE j].val

\* CDFSlopeNumeric at the j-th point of the grid: the forward difference of the
\* quantile function, backward where the forward point is not finite.  The code's
\* epsilon is 1e-5; the model's is one step of the grid, 1/10.
CDFSlopeNumeric(qs, j) ==
    IF ~IsFinite(QuantileAt(qs, j + 1))
    THEN Div(Sub(QuantileAt(qs, j - 1), QuantileAt(qs, j)), Norm(-1, 10))
    ELSE Div(Sub(QuantileAt(qs, j + 1), QuantileAt(qs, j)), Norm(1, 10))

\* np.argmin: the first index of a least element
RECURSIVE argmin(_, _, _)
argmin(xs, i, best) ==
    IF i > Len(xs) THEN best
    ELSE argmin(xs, i + 1, IF Lt(xs[i], xs[best]) THEN i ELSE best)

\* optimize.minimize(f, x0, bounds=[(0, 1)]).fun, as a descent over the grid from
\* its i-th point: move to a neighbour with a lower value of f while there is one.
RECURSIVE minimize(_, _)
minimize(f, i) ==
    IF i > 1 /\ Lt(f[i - 1], f[i]) THEN minimize(f, i - 1)
    ELSE IF i < Len(f) /\ Lt(f[i + 1], f[i]) THEN minimize(f, i + 1)
    ELSE f[i]

\* Lines 244-251 from qs, the results of quantile on 0, ps_to_check and 1: xs is
\* qs without its ends, and ps_to_check[i] is the (i+1)-th point of the grid.
MinimumIncrement(qs) ==
    IF FirstError(qs, 1) # "none" THEN Raise(FirstError(qs, 1))
    ELSE Ok(minimize(Table([j \in 1..Len(qs) |-> CDFSlopeNumeric(qs, j)]),
                     argmin(Table([i \in 1..(Len(qs) - 3) |->
                                      Sub(qs[i + 2].val, qs[i + 1].val)]), 1, 1) + 1))

QuantileMinimumIncrement(self) ==
    MinimumIncrement(
        quantile(self, <<F(0)>> \o linspace(Norm(1, 10), Norm(9, 10), 9) \o <<F(1)>>))

\* The score of the method that isFeasible and feasibilityBool call
Score(self, method) ==
    IF method = "QuantileMinimumIncrement" THEN QuantileMinimumIncrement(self)
    ELSE IF method = "QuantileSumNegativeIncrements"
        THEN infeasibilityScoreQuantileSumNegativeIncrements(self)
    ELSE infeasibilityScoreSmallMReciprocal(self)

\* A variant of Verdict that treats every score as an infeasibility score
Verdict_mutant(method, s) ==
    IF s.err # "none" THEN [err |-> s.err, violation |-> NaN, valid |-> FALSE]
    ELSE [err |-> "none", violation |-> s.val, valid |-> (s.val = F(0))]

\* Lines 100-119 of isFeasible from the score s: the values left in
\* valid_distribution_violation and valid_distribution
Verdict(method, s) ==
    IF s.err # "none" THEN [err |-> s.err, violation |-> NaN, valid |-> FALSE]
    ELSE IF method = "QuantileMinimumIncrement" THEN
        (IF Lt(s.val, F(0))
         THEN [err |-> "none", violation |-> s.val, valid |-> FALSE]
         ELSE [err |-> "none", violation |-> F(0), valid |-> TRUE])
    ELSE [err |-> "none", violation |-> s.val, valid |-> (s.val = F(0))]

\* isFeasible: the values it leaves in valid_distribution_violation and
\* valid_distribution (which it returns), or the exception of the score it calls.
isFeasible(self, feasibility_method) ==
    Verdict(feasibility_method, Score(self, feasibility_method))

----------------------------------------------------------------------------
(* CDF inversion and mean square error                                     *)

\* f_to_zero = lambda probability: self._quantile(probability) - x
Shift(q, x) == [err |-> q.err, val |-> Sub(q.val, F(x))]

\* f_to_zero on the probabilities 0, 1/10, ..., 1
f_to_zero(self, x) ==
    Table([i \in 1..11 |-> Shift(_quantile(self, Norm(i - 1, 10), FALSE), x)])

\* The iterations of the bracketing solver, as a bisection over the grid
RECURSIVE Bisect(_, _, _)
Bisect(f, lo, hi) ==
    IF hi - lo <= 1 THEN hi
    ELSE IF f[(lo + hi) \div 2].val = F(0) THEN (lo + hi) \div 2
    ELSE IF Lt(f[(lo + hi) \div 2].val, F(0)) = Lt(f[lo].val, F(0))
        THEN Bisect(f, (lo + hi) \div 2, hi)
    ELSE Bisect(f, lo, (lo + hi) \div 2)

\* optimize.brentq(f_to_zero, 0, 1): the ends are evaluated first
brentq(f) ==
    IF (Lt(f[1].val, F(0)) /\ Lt(f[11].val, F(0)))
       \/ (Lt(F(0), f[1].val) /\ Lt(F(0), f[11].val))
        THEN Raise("ValueError: f(a) and f(b) must have different signs")
    ELSE IF f[1].val = F(0) THEN Ok(F(0))
    ELSE IF f[11].val = F(0) THEN Ok(F(1))
    ELSE IF FirstError(f, 1) # "none" THEN Raise(FirstError(f, 1))
    ELSE Ok(Norm(Bisect(f, 1, 11) - 1, 10))

getCumulativeProb(self, x) == brentq(f_to_zero(self, x))

\* Line 478: the density at the cumulative probability, a Python float
DensityAt(self, cumulative_prob) ==
    IF cumulative_prob.err # "none" THEN cumulative_prob
    ELSE densitySmallM(self, cumulative_prob.val, FALSE, FALSE)

\* _pdf on a scalar
_pdf(self, x) == DensityAt(self, getCumulativeProb(self, x))

\* np.sum((self.cdf_ps - ps_on_fitted_cdf) ** 2) from the i-th sample on
RECURSIVE sum_sq_error(_, _, _)
sum_sq_error(ps, ps_on_fitted_cdf, i) ==
    IF i > Len(ps) THEN F(0)
    ELSE Add(Pow(Sub(ps[i], ps_on_fitted_cdf[i].val), 2),
             sum_sq_error(ps, ps_on_fitted_cdf, i + 1))

\* Lines 202-203 from ps_on_fitted_cdf, the results of the CDF on cdf_xs
ErrorOfFit(ps, ps_on_fitted_cdf) ==
    IF FirstError(ps_on_fitted_cdf, 1) # "none"
        THEN Raise(FirstError(ps_on_fitted_cdf, 1))
    ELSE IF Len(ps) # Len(ps_on_fitted_cdf)
        THEN Raise("ValueError: operands could not be broadcast together")
    ELSE Ok(Div(sum_sq_error(ps, ps_on_fitted_cdf, 1), F(Len(ps))))

\* meanSquareError of an object whose samples are ps (optional), xs (optional)
meanSquareError(self, ps, xs) ==
    IF ps = None \/ xs = None THEN Raise("TypeError")
    ELSE ErrorOfFit(ps[1],
             Table([i \in 1..Len(xs[1]) |-> getCumulativeProb(self, xs[1][i])]))

----------------------------------------------------------------------------
(* Inputs                                                                  *)

\* The largest term count of the inputs
MaxTerm == 6

\* The largest magnitude of the last coefficient of a candidate vector
CoefMax == 1

\* Coefficient vectors of length n: the logistic <<0, 1, 0, ..>>, the same with its
\* last coefficient raised (for n > 2), and the decreasing <<0, -1, 0, ..>>.  They
\* stand for what a caller supplies and for what the least-squares solvers return.
Vectors(n) ==
    {[i \in 1..n |-> IF i = 2 THEN 1 ELSE IF i = n THEN c ELSE 0] : c \in 0..CoefMax}
    \cup {[i \in 1..n |-> IF i = 2 THEN -1 ELSE 0]}

\* What a numeric solver may return for a start vector of length n: a vector of
\* Vectors(n), or the logistic moved six units down, a feasible vector that fits the
\* samples badly.
SolverVectors(n) ==
    Vectors(n) \cup {[i \in 1..n |-> IF i = 1 THEN -6 ELSE IF i = 2 THEN 1 ELSE 0]}

\* Sample probabilities and quantile values, in the order they are drawn on
PsPool == <<Norm(1, 10), Norm(9, 10), Norm(5, 10), Norm(3, 10), Norm(7, 10),
            Norm(2, 10), Norm(8, 10), Norm(4, 10), Norm(6, 10)>>

XsPool == <<2, 10, 6, 4, 8, 3, 9, 5, 7>>

Bounds == {<<None, None>>, <<Some(1), None>>, <<None, Some(12)>>, <<Some(1), Some(12)>>}

FeasibilityMethods ==
    {"QuantileMinimumIncrement", "QuantileSumNegativeIncrements", "SmallMReciprocal"}

\* The arguments of a call MetaLogistic(...) that fits samples: n probabilities, as
\* many quantile values or one more or less, and the term left out or one above
\* the sample count.
SampleArgs ==
    {[cdf_ps |-> Some(SubSeq(PsPool, 1, n)), cdf_xs |-> Some(SubSeq(XsPool, 1, m)),
      term |-> t, fit_method |-> fm, a_vector |-> None, a_np |-> FALSE] :
        n \in 2..MaxTerm, m \in 1..(MaxTerm + 1),
        t \in {None} \cup {Some(k) : k \in 3..MaxTerm},
        fm \in {"None", "LLS"}}

\* The arguments of a call that supplies the a_vector (a list of Python numbers):
\* without samples, three coefficients with three samples, or with a term one
\* below the vector's length.
VectorArgs ==
    {[cdf_ps |-> ps, cdf_xs |-> IF ps = None THEN None ELSE Some(SubSeq(XsPool, 1, 3)),
      term |-> t, fit_method |-> "None", a_vector |-> Some(v), a_np |-> FALSE] :
        ps \in {None, Some(SubSeq(PsPool, 1, 3))},
        t \in {None} \cup {Some(k) : k \in 2..MaxTerm},
        v \in UNION {Vectors(n) : n \in 2..MaxTerm}}

Args ==
    {c \in SampleArgs :
        /\ Len(c.cdf_xs[1]) - Len(c.cdf_ps[1]) \in {-1, 0, 1}
        /\ c.term # None => c.term[1] = Len(c.cdf_ps[1]) + 1}
    \cup
    {c \in VectorArgs :
        /\ c.term # None => (c.cdf_ps = None /\ c.term[1] = Len(c.a_vector[1]) - 1)
        /\ c.cdf_ps # None => Len(c.a_vector[1]) = 3}

\* Probabilities a caller asks about: below 0, 0, inside (0, 1), 1, above 1
QueryPs == {Norm(k, 10) : k \in {-1, 0, 1, 5, 9, 10, 11}}

\* Values a caller asks the CDF and PDF about
QueryXs == {0, 5}

----------------------------------------------------------------------------
(* State                                                                   *)

VARIABLES
    pc,                 \* position of the constructor: "start", "basis", "lls",
                        \* "check", "refine", "final", "done", "raised"
    err,                \* the exception the constructor raised, "none" otherwise
    args,               \* the arguments of the constructor call
    boundedness, lbound, ubound,
    fit_method_requested, numeric_ls_solver_used, feasibility_method,
    cdf_ps, cdf_xs, cdf_len, term,
    a_vector, a_np,
    z_vec, YMatrix,
    fit_method_used, valid_distribution, valid_distribution_violation,
    numeric_leastSQ_OptimizeResult,
    optimize_results,            \* fitNumericLeastSquares: the default solver's result
    optimize_results_alternate,  \* fitNumericLeastSquares: trust-constr's result
    trace,              \* the fitting components the constructor has called, in order
    call, ret           \* the last query made of the constructed object, its result

attrs ==
    <<boundedness, lbound, ubound, fit_method_requested, numeric_ls_solver_used,
      feasibility_method, cdf_ps, cdf_xs, cdf_len, term, a_vector, a_np, z_vec, YMatrix,
      fit_method_used, valid_distribution, valid_distribution_violation,
      numeric_leastSQ_OptimizeResult>>

locals == <<optimize_results, optimize_results_alternate>>

vars == <<pc, err, args, attrs, locals, trace, call, ret>>

\* An attribute that has not been assigned
UNSET == <<"UNSET", "UNSET">>

NoCall == [op |-> "none"]

\* The attributes the evaluation methods read
Self ==
    [a_vector |-> a_vector[1], term |-> term[1], boundedness |-> boundedness,
     lbound |-> lbound, ubound |-> ubound, a_np |-> a_np]

\* MetaLogistic(a_vector=a_candidate, **bounds_kwargs): term is len(a_vector)
Candidate(a_candidate) ==
    [a_vector |-> a_candidate, term |-> Len(a_candidate), boundedness |-> boundedness,
     lbound |-> lbound, ubound |-> ubound, a_np |-> TRUE]

Init ==
    /\ pc = "start"
    /\ err = "none"
    /\ \E c \in Args, b \in Bounds, m \in FeasibilityMethods :
          args = c @@ [lbound |-> b[1], ubound |-> b[2], feasibility_method |-> m]
    /\ boundedness = "UNSET"
    /\ lbound = UNSET /\ ubound = UNSET
    /\ fit_method_requested = "UNSET"
    /\ numeric_ls_solver_used = "UNSET"
    /\ feasibility_method = "UNSET"
    /\ cdf_ps = UNSET /\ cdf_xs = UNSET /\ cdf_len = UNSET /\ term = UNSET
    /\ a_vector = UNSET /\ a_np = FALSE
    /\ z_vec = UNSET /\ YMatrix = UNSET
    /\ fit_method_used = "UNSET"
    /\ valid_distribution = UNSET
    /\ valid_distribution_violation = UNSET
    /\ numeric_leastSQ_OptimizeResult = UNSET
    /\ optimize_results = UNSET /\ optimize_results_alternate = UNSET
    /\ trace = <<>>
    /\ call = NoCall /\ ret = Ok(F(0))

----------------------------------------------------------------------------
(* Construction: MetaLogistic.__init__, one action per stage               *)

\* The constructor stops with exception e
RaiseFrom(e) == pc' = "raised" /\ err' = e

\* Lines 23-65: the attributes set from the arguments, the a_vector special case,
\* the length check and the term.
Start ==
    /\ pc = "start"
    /\ boundedness' =
          IF args.lbound = None /\ args.ubound = None THEN "False"
          ELSE IF args.lbound = None THEN "upper"
          ELSE IF args.ubound = None THEN "lower"
          ELSE "bounded"
    /\ lbound' = args.lbound
    /\ ubound' = args.ubound
    /\ fit_method_requested' = args.fit_method
    /\ numeric_ls_solver_used' = "None"
    /\ feasibility_method' = args.feasibility_method
    /\ cdf_ps' = args.cdf_ps
    /\ cdf_xs' = args.cdf_xs
    /\ IF args.cdf_xs # None /\ args.cdf_ps # None
              /\ Len(args.cdf_xs[1]) < Len(args.cdf_ps[1])
       THEN \* line 45: cdf_xs[i] for i in range(len(cdf_ps))
            /\ RaiseFrom("IndexError")
            /\ UNCHANGED <<cdf_len, a_vector, a_np, term>>
       ELSE /\ cdf_len' = IF args.cdf_xs # None /\ args.cdf_ps # None
                          THEN Some(Len(args.cdf_ps[1])) ELSE UNSET
            /\ IF args.a_vector # None
               THEN /\ a_vector' = args.a_vector
                    /\ a_np' = args.a_np
                    /\ term' = IF args.term = None
                               THEN Some(Len(args.a_vector[1])) ELSE args.term
                    /\ pc' = "done"
                    /\ err' = "none"
               ELSE /\ UNCHANGED <<a_vector, a_np>>
                    /\ IF args.cdf_ps = None
                       THEN RaiseFrom("TypeError") /\ UNCHANGED term
                       ELSE IF Len(args.cdf_ps[1]) # Len(args.cdf_ps[1])
                       THEN /\ RaiseFrom("ValueError: cdf_ps and cdf_xs must have the same length")
                            /\ UNCHANGED term
                       ELSE /\ term' = IF args.term = None THEN cdf_len' ELSE args.term
                            /\ pc' = "basis"
                            /\ err' = "none"
    /\ UNCHANGED <<args, z_vec, YMatrix, fit_method_used, valid_distribution,
                   valid_distribution_violation, numeric_leastSQ_OptimizeResult,
                   locals, trace, call, ret>>

\* The n-th column of the Y matrix from column_2 and column_4 (constructYMatrix)
YColumn(n, column_2, column_4) ==
    IF n = 1 THEN F(1)
    ELSE IF n = 2 THEN column_2
    ELSE IF n = 3 THEN Mul(column_4, column_2)
    ELSE IF n = 4 THEN column_4
    ELSE IF n % 2 # 0 THEN Pow(column_4, (n - 1) \div 2)
    ELSE Mul(Pow(column_4, (n \div 2) - 1), column_2)

constructYMatrix(ps, n_terms) ==
    [i \in 1..Len(ps) |->
        [n \in 1..n_terms |-> YColumn(n, ln_p_term(ps[i]), p05_term(ps[i]))]]

constructZVec(xs) ==
    [i \in 1..Len(xs) |->
        IF boundedness = "lower" THEN LogF(F(xs[i] - lbound[1]))
        ELSE IF boundedness = "upper" THEN Neg(LogF(F(ubound[1] - xs[i])))
        ELSE IF boundedness = "bounded"
            THEN LogF(Div(F(xs[i] - lbound[1]), F(ubound[1] - xs[i])))
        ELSE F(xs[i])]

\* Lines 68-69
BuildBasis ==
    /\ pc = "basis"
    /\ z_vec' = Some(constructZVec(cdf_xs[1]))
    /\ IF term[1] < 2
       THEN RaiseFrom("KeyError") /\ UNCHANGED YMatrix
       ELSE /\ YMatrix' = Some(constructYMatrix(cdf_ps[1], term[1]))
            /\ pc' = "lls"
            /\ err' = "none"
    /\ UNCHANGED <<args, boundedness, lbound, ubound, fit_method_requested,
                   numeric_ls_solver_used, feasibility_method, cdf_ps, cdf_xs, cdf_len,
                   term, a_vector, a_np, fit_method_used, valid_distribution,
                   valid_distribution_violation, numeric_leastSQ_OptimizeResult,
                   locals, trace, call, ret>>

\* The number of distinct rows of the Y matrix bounds its rank
Singular(Y, n_terms) == Cardinality({Y[i] : i \in 1..Len(Y)}) < n_terms

\* Line 72, fitLinearLeastSquares.  np.linalg.inv raises on a singular Y'Y and np.dot
\* on a z_vec whose length is not the number of rows of Y; otherwise the solution is
\* some vector of `term` coefficients, which the model draws from Vectors.
fitLinearLeastSquares ==
    /\ pc = "lls"
    /\ trace' = Append(trace, "LLS")
    /\ IF Singular(YMatrix[1], term[1])
       THEN RaiseFrom("LinAlgError") /\ UNCHANGED <<a_vector, a_np>>
       ELSE IF Len(z_vec[1]) # Len(YMatrix[1])
       THEN RaiseFrom("ValueError: shapes not aligned") /\ UNCHANGED <<a_vector, a_np>>
       ELSE /\ \E v \in Vectors(term[1]) : a_vector' = Some(v)
            /\ a_np' = TRUE
            /\ pc' = "check"
            /\ err' = "none"
    /\ UNCHANGED <<args, boundedness, lbound, ubound, fit_method_requested,
                   numeric_ls_solver_used, feasibility_method, cdf_ps, cdf_xs, cdf_len,
                   term, z_vec, YMatrix, fit_method_used, valid_distribution,
                   valid_distribution_violation, numeric_leastSQ_OptimizeResult,
                   locals, call, ret>>

\* A variant of RefinerAllowed that ignores the caller's restriction
RefinerAllowed_mutant(fit_method) == TRUE

\* Line 82: if not fit_method == 'LLS'
RefinerAllowed(fit_method) == ~(fit_method = "LLS")

\* Lines 75-93 but for the call of line 89: the first feasibility check and the
\* branch on its verdict.
CheckLLS ==
    /\ pc = "check"
    /\ trace' = Append(trace, "isFeasible")
    /\ \E r \in {isFeasible(Self, feasibility_method)} :
           IF r.err # "none"
           THEN /\ RaiseFrom(r.err)
                /\ UNCHANGED <<valid_distribution, valid_distribution_violation,
                               fit_method_used>>
           ELSE /\ valid_distribution_violation' = Some(r.violation)
                /\ err' = "none"
                /\ IF r.valid
                   THEN /\ fit_method_used' = "LLS"
                        /\ valid_distribution' = Some(TRUE)
                        /\ pc' = "final"
                   ELSE IF RefinerAllowed(args.fit_method)
                   THEN /\ fit_method_used' = "numeric"
                        /\ valid_distribution' = Some(r.valid)
                        /\ pc' = "refine"
                   ELSE /\ valid_distribution' = Some(FALSE)
                        /\ UNCHANGED fit_method_used
                        /\ pc' = "final"
    /\ UNCHANGED <<args, boundedness, lbound, ubound, fit_method_requested,
                   numeric_ls_solver_used, feasibility_method, cdf_ps, cdf_xs, cdf_len,
                   term, a_vector, a_np, z_vec, YMatrix,
                   numeric_leastSQ_OptimizeResult, locals, call, ret>>

\* Lines 154-167: feasibilityBool from the score s of the candidate
FeasibleScore(method, s) ==
    IF method = "QuantileMinimumIncrement" THEN Le(F(0), s.val) ELSE s.val = F(0)

\* feasibilityBool(a_candidate) of fitNumericLeastSquares
feasibilityBool(a_candidate, method) ==
    FeasibleScore(method, Score(Candidate(a_candidate), method))

\* loss_function(a_candidate) of fitNumericLeastSquares
loss_function(a_candidate) == meanSquareError(Candidate(a_candidate), cdf_ps, cdf_xs).val

\* The threshold 0.01 on the mean square error, line 180
MseThreshold == Norm(1, 100)

\* Lines 180-194: the result fitNumericLeastSquares keeps.  r1 is the default
\* solver's result; r2 is trust-constr's, None when that solver did not run;
\* feasible2 tells whether r2.constr_violation == 0.
KeptResult(r1, r2, feasible2) ==
    IF r2 # None /\ feasible2 /\ Lt(r2[1].fun, r1.fun) THEN r2[1] ELSE r1

\* Line 89, fitNumericLeastSquares.  Each solver returns some vector of the length of
\* a0 (drawn from SolverVectors) with the loss at that vector.
fitNumericLeastSquares ==
    /\ pc = "refine"
    /\ trace' = Append(trace, "fitNumericLeastSquares")
    /\ \E feasible \in {Table([v \in SolverVectors(Len(a_vector[1])) |->
                                  feasibilityBool(v, feasibility_method)])},
          loss \in {Table([v \in SolverVectors(Len(a_vector[1])) |-> loss_function(v)])},
          x1 \in SolverVectors(Len(a_vector[1])) :
          /\ optimize_results' = Some([x |-> x1, fun |-> loss[x1]])
          /\ IF Lt(MseThreshold, loss[x1]) \/ ~feasible[x1]
             THEN \E x2 \in SolverVectors(Len(a_vector[1])) :
                    /\ optimize_results_alternate' = Some([x |-> x2, fun |-> loss[x2]])
                    /\ numeric_ls_solver_used' = "trust-constr"
                    /\ \E kept \in {KeptResult([x |-> x1, fun |-> loss[x1]],
                                                Some([x |-> x2, fun |-> loss[x2]]),
                                                feasible[x2])} :
                          /\ a_vector' = Some(kept.x)
                          /\ numeric_leastSQ_OptimizeResult' = Some(kept)
             ELSE /\ optimize_results_alternate' = None
                  /\ numeric_ls_solver_used' = "Default"
                  /\ a_vector' = Some(x1)
                  /\ numeric_leastSQ_OptimizeResult' = Some([x |-> x1, fun |-> loss[x1]])
    /\ a_np' = TRUE
    /\ pc' = "final"
    /\ UNCHANGED <<err, args, boundedness, lbound, ubound, fit_method_requested,
                   feasibility_method, cdf_ps, cdf_xs, cdf_len, term, z_vec, YMatrix,
                   fit_method_used, valid_distribution, valid_distribution_violation,
                   call, ret>>

\* Lines 95-96: the feasibility check that ends the constructor
FinalCheck ==
    /\ pc = "final"
    /\ trace' = Append(trace, "isFeasible")
    /\ \E r \in {isFeasible(Self, feasibility_method)} :
           IF r.err # "none"
           THEN /\ RaiseFrom(r.err)
                /\ UNCHANGED <<valid_distribution, valid_distribution_violation>>
           ELSE /\ valid_distribution_violation' = Some(r.violation)
                /\ valid_distribution' = Some(r.valid)
                /\ pc' = "done"
                /\ err' = "none"
    /\ UNCHANGED <<args, boundedness, lbound, ubound, fit_method_requested,
                   numeric_ls_solver_used, feasibility_method, cdf_ps, cdf_xs, cdf_len,
                   term, a_vector, a_np, z_vec, YMatrix, fit_method_used,
                   numeric_leastSQ_OptimizeResult, locals, call, ret>>

----------------------------------------------------------------------------
(* Queries of a constructed object                                         *)

\* Python's True and False as numbers
Bool(b) == IF b THEN F(1) ELSE F(0)

Query_quantile ==
    /\ pc = "done"
    /\ \E p \in QueryPs, force_unbounded \in BOOLEAN :
          /\ call' = [op |-> "_quantile", p |-> p, force_unbounded |-> force_unbounded]
          /\ ret' = _quantile(Self, p, force_unbounded)
    /\ pc' = "returned"
    /\ UNCHANGED <<err, args, attrs, locals, trace>>

Query_densitySmallM ==
    /\ pc = "done"
    /\ \E p \in QueryPs, force_unbounded \in BOOLEAN, p_np \in BOOLEAN :
          /\ call' = [op |-> "densitySmallM", p |-> p,
                      force_unbounded |-> force_unbounded, p_np |-> p_np]
          /\ ret' = densitySmallM(Self, p, force_unbounded, p_np)
    /\ pc' = "returned"
    /\ UNCHANGED <<err, args, attrs, locals, trace>>

Query_isFeasible ==
    /\ pc = "done"
    /\ call' = [op |-> "isFeasible"]
    /\ \E r \in {isFeasible(Self, feasibility_method)} :
           IF r.err # "none"
           THEN /\ ret' = Raise(r.err)
                /\ UNCHANGED <<valid_distribution, valid_distribution_violation>>
           ELSE /\ ret' = Ok(Bool(r.valid))
                /\ valid_distribution_violation' = Some(r.violation)
                /\ valid_distribution' = Some(r.valid)
    /\ pc' = "returned"
    /\ UNCHANGED <<err, args, boundedness, lbound, ubound, fit_method_requested,
                   numeric_ls_solver_used, feasibility_method, cdf_ps, cdf_xs, cdf_len,
                   term, a_vector, a_np, z_vec, YMatrix, fit_method_used,
                   numeric_leastSQ_OptimizeResult, locals, trace>>

\* A variant of Query_score that stores the score it computed
Query_score_mutant ==
    /\ pc = "done"
    /\ \E m \in FeasibilityMethods :
          /\ call' = [op |-> m]
          /\ ret' = Score(Self, m)
          /\ valid_distribution_violation' = Some(Score(Self, m).val)
    /\ pc' = "returned"
    /\ UNCHANGED <<err, args, boundedness, lbound, ubound, fit_method_requested,
                   numeric_ls_solver_used, feasibility_method, cdf_ps, cdf_xs, cdf_len,
                   term, a_vector, a_np, z_vec, YMatrix, fit_method_used,
                   valid_distribution, numeric_leastSQ_OptimizeResult, locals, trace>>

Query_score ==
    /\ pc = "done"
    /\ \E m \in FeasibilityMethods :
          /\ call' = [op |-> m]
          /\ ret' = Score(Self, m)
    /\ pc' = "returned"
    /\ UNCHANGED <<err, args, attrs, locals, trace>>

Query_meanSquareError ==
    /\ pc = "done"
    /\ call' = [op |-> "meanSquareError"]
    /\ ret' = meanSquareError(Self, cdf_ps, cdf_xs)
    /\ pc' = "returned"
    /\ UNCHANGED <<err, args, attrs, locals, trace>>

Query_cdf ==
    /\ pc = "done"
    /\ \E x \in QueryXs :
          /\ call' = [op |-> "_cdf", x |-> x]
          /\ ret' = getCumulativeProb(Self, x)
    /\ pc' = "returned"
    /\ UNCHANGED <<err, args, attrs, locals, trace>>

Query_pdf ==
    /\ pc = "done"
    /\ \E x \in QueryXs :
          /\ call' = [op |-> "_pdf", x |-> x]
          /\ ret' = _pdf(Self, x)
    /\ pc' = "returned"
    /\ UNCHANGED <<err, args, attrs, locals, trace>>

\* The call returns to the caller, who may make the next one
Return ==
    /\ pc = "returned"
    /\ pc' = "done"
    /\ call' = NoCall
    /\ ret' = Ok(F(0))
    /\ UNCHANGED <<err, args, attrs, locals, trace>>

Next ==
    \/ Start
    \/ BuildBasis
    \/ fitLinearLeastSquares
    \/ CheckLLS
    \/ fitNumericLeastSquares
    \/ FinalCheck
    \/ Query_quantile
    \/ Query_densitySmallM
    \/ Query_isFeasible
    \/ Query_score
    \/ Query_meanSquareError
    \/ Query_cdf
    \/ Query_pdf
    \/ Return

Spec == Init /\ [][Next]_vars

----------------------------------------------------------------------------
(* Properties                                                              *)

\* The constructor was given the a_vector
Supplied == args.a_vector # None

\* The constructor has returned
Constructed == pc \in {"done", "returned"}

\* The components a construction from samples calls, in order, without and with
\* the numeric refiner
LinearPath == <<"LLS", "isFeasible", "isFeasible">>

NumericPath == <<"LLS", "isFeasible", "fitNumericLeastSquares", "isFeasible">>

IsPrefix(s, t) == Len(s) <= Len(t) /\ SubSeq(t, 1, Len(s)) = s

\* C1: a construction from samples calls the linear fit first and checks its result;
\* it calls the numeric refiner, once, exactly when that result is infeasible and
\* fit_method is not 'LLS'; a construction from a supplied a_vector calls none of
\* them and keeps the vector it was given.
C1_ConstructionStateMachine ==
    /\ Supplied =>
          /\ trace = <<>>
          /\ pc \in {"start", "done", "returned"}
          /\ Constructed => a_vector = args.a_vector
    /\ ~Supplied =>
          /\ IsPrefix(trace, LinearPath) \/ IsPrefix(trace, NumericPath)
          /\ pc = "check" => trace = <<"LLS">>
          /\ pc = "refine" => trace = <<"LLS", "isFeasible">>
          /\ (pc \in {"refine", "final"} /\ Len(trace) = 2) =>
                (pc = "refine" <=> (/\ ~isFeasible(Self, feasibility_method).valid
                                    /\ args.fit_method # "LLS"))
          /\ (pc = "final" /\ Len(trace) = 3) => trace[3] = "fitNumericLeastSquares"
          /\ Constructed => trace \in {LinearPath, NumericPath}

\* A construction from samples that ran the numeric refiner has returned
C1_Witness == pc = "done" /\ ~Supplied /\ trace = NumericPath

\* C2: _quantile(p) for p <= 0 is lbound when the distribution is bounded below and
\* the override is off, -inf otherwise; for p >= 1 it is ubound when bounded above
\* and the override is off, +inf otherwise; whatever the coefficients and the term.
C2_QuantileBoundaryValues ==
    (pc = "returned" /\ call.op = "_quantile") =>
        /\ Le(call.p, F(0)) =>
              ret = Ok(IF boundedness \in {"lower", "bounded"} /\ ~call.force_unbounded
                       THEN F(lbound[1]) ELSE NegInf)
        /\ Le(F(1), call.p) =>
              ret = Ok(IF boundedness \in {"upper", "bounded"} /\ ~call.force_unbounded
                       THEN F(ubound[1]) ELSE PosInf)

\* _quantile(0) has returned lbound on a doubly-bounded object with two coefficients
C2_Witness ==
    /\ pc = "returned" /\ call.op = "_quantile" /\ call.p = F(0)
    /\ ~call.force_unbounded /\ boundedness = "bounded" /\ Len(a_vector[1]) = 2
    /\ ret = Ok(F(lbound[1]))

\* C3: after a construction from samples has returned, fit_method_used is one of
\* LLS, numeric, none: LLS exactly when the linear fit was feasible, numeric exactly
\* when the refiner ran; numeric_ls_solver_used is none unless the refiner ran; and
\* valid_distribution is the feasibility verdict on the final coefficients.
C3_FitDiagnosticsDefined ==
    (Constructed /\ ~Supplied) =>
        /\ fit_method_used \in {"LLS", "numeric", "None"}
        /\ fit_method_used = "LLS" <=>
              (trace = LinearPath /\ valid_distribution = Some(TRUE))
        /\ fit_method_used = "numeric" <=> trace = NumericPath
        /\ trace = LinearPath => numeric_ls_solver_used = "None"
        /\ valid_distribution = Some(isFeasible(Self, feasibility_method).valid)

\* What C4 says the refiner keeps of the results r1 and r2 of its two stages, f1 and
\* f2 telling whether each satisfies the feasibility constraint
KeptAsClaimed(r1, r2, f1, f2) ==
    /\ (f2 /\ ~f1) => a_vector = Some(r2.x)
    /\ (f1 /\ ~f2) => a_vector = Some(r1.x)
    /\ (f1 /\ f2) => a_vector = Some(IF Lt(r2.fun, r1.fun) THEN r2.x ELSE r1.x)

\* C4: when the refiner has run both stages, it keeps the feasible result with the
\* lower error, and the only feasible one if just one is feasible.
C4_RefinerKeepsFeasibleResult ==
    (/\ pc = "final" /\ Len(trace) = 3
     /\ optimize_results_alternate # None /\ optimize_results_alternate # UNSET) =>
        KeptAsClaimed(optimize_results[1], optimize_results_alternate[1],
                      feasibilityBool(optimize_results[1].x, feasibility_method),
                      feasibilityBool(optimize_results_alternate[1].x,
                                      feasibility_method))

\* C5: densitySmallM without the override returns 0 at p = 0 on a distribution
\* bounded below and at p = 1 on one bounded above, for every term >= 2 and every
\* vector of that many coefficients.
C5_DensityZeroAtBoundedEnd ==
    (/\ pc = "returned" /\ call.op = "densitySmallM" /\ ~call.force_unbounded
     /\ term[1] >= 2 /\ Len(a_vector[1]) = term[1]
     /\ \/ call.p = F(0) /\ boundedness \in {"lower", "bounded"}
        \/ call.p = F(1) /\ boundedness \in {"upper", "bounded"}) =>
        ret = Ok(F(0))

\* The domain errors of densitySmallM
IsValueError(e) ==
    e \in {"ValueError: must be between 0 and 1",
           "ValueError: cannot be equal to 0 and 1 for an unbounded distribution",
           "ValueError: cannot be equal to 1 with a lower-bounded distribution",
           "ValueError: cannot be equal to 0 with a upper-bounded distribution"}

\* p is outside [0, 1], or is 0 or 1 and the distribution is unbounded
OutsideDomain(p) ==
    \/ ~(Le(F(0), p) /\ Le(p, F(1)))
    \/ boundedness = "False" /\ (p = F(0) \/ p = F(1))

\* p is the end of [0, 1] on the side where a semi-bounded distribution has no bound
UnboundedEnd(p) ==
    \/ boundedness = "lower" /\ p = F(1)
    \/ boundedness = "upper" /\ p = F(0)

\* C6 as stated: densitySmallM raises a domain error exactly when p is outside
\* [0, 1], or is 0 or 1 on an unbounded distribution; on a distribution with a bound
\* it raises none for any p in [0, 1].
C6_DomainErrorOnlyOutsideDomain ==
    (pc = "returned" /\ call.op = "densitySmallM") =>
        (IsValueError(ret.err) <=> OutsideDomain(call.p))

\* C6, amended: densitySmallM raises a domain error, whatever the coefficients, when
\* p is outside [0, 1] or is 0 or 1 on an unbounded distribution.  For the other p it
\* raises a domain error only at p = 1 on a lower-bounded and p = 0 on an
\* upper-bounded distribution without the override: there it never returns a value,
\* and the error is the domain error whenever the evaluation gets as far as the
\* bounds (the argument a NumPy scalar, the recurrence complete).
C6_DomainErrors ==
    (pc = "returned" /\ call.op = "densitySmallM") =>
        IF OutsideDomain(call.p) THEN
            ret.err = (IF ~(Le(F(0), call.p) /\ Le(call.p, F(1)))
                       THEN "ValueError: must be between 0 and 1"
                       ELSE "ValueError: cannot be equal to 0 and 1 for an unbounded distribution")
        ELSE IF UnboundedEnd(call.p) /\ ~call.force_unbounded THEN
            /\ ret.err # "none"
            /\ (call.p_np /\ DensityError(Self, call.p, TRUE) = "none") =>
                  IsValueError(ret.err)
        ELSE ~IsValueError(ret.err)

\* densitySmallM(1) has raised the domain error of a lower-bounded distribution
C6_Witness ==
    /\ pc = "returned" /\ call.op = "densitySmallM" /\ call.p = F(1)
    /\ boundedness = "lower"
    /\ ret.err = "ValueError: cannot be equal to 1 with a lower-bounded distribution"

\* C7: a construction from samples with len(cdf_ps) # len(cdf_xs) raises
\* ValueError('cdf_ps and cdf_xs must have the same length') and fits nothing.
C7_LengthMismatchRejected ==
    (/\ ~Supplied /\ pc # "start"
     /\ args.cdf_ps # None /\ args.cdf_xs # None
     /\ Len(args.cdf_ps[1]) # Len(args.cdf_xs[1])) =>
        /\ pc = "raised"
        /\ err = "ValueError: cdf_ps and cdf_xs must have the same length"
        /\ trace = <<>>

\* The attributes C8 names, but for the two that isFeasible assigns
Described ==
    <<a_vector, term, lbound, ubound, boundedness, cdf_ps, cdf_xs,
      fit_method_used, numeric_ls_solver_used>>

Validity == <<valid_distribution, valid_distribution_violation>>

\* C8 as stated: once the constructor has returned, no query changes the
\* coefficients, the term, the bounds, the samples or the fit diagnostics.
C8_QueriesChangeNothing ==
    [][Constructed => (Described' = Described /\ Validity' = Validity)]_vars

\* C8, amended: once the constructor has returned, no query changes the
\* coefficients, the term, the bounds, the samples, fit_method_used or
\* numeric_ls_solver_used; valid_distribution and valid_distribution_violation
\* change only when isFeasible is called on an object built from a supplied
\* a_vector, which has them unset, and they then hold the verdict on that vector.
C8_QueriesChangeOnlyUnsetValidity ==
    [][Constructed =>
          /\ Described' = Described
          /\ Validity' # Validity =>
                /\ call'.op = "isFeasible" /\ Supplied
                /\ valid_distribution = UNSET /\ valid_distribution_violation = UNSET
                /\ valid_distribution' =
                      Some(isFeasible(Self, feasibility_method).valid)]_vars

\* isFeasible has set valid_distribution on an object built from a supplied a_vector
C8_Witness ==
    /\ pc = "returned" /\ call.op = "isFeasible" /\ Supplied
    /\ valid_distribution # UNSET /\ ret.err = "none"

\* No quantile on the grid is below the one before it
NoNegativeIncrement(xs) == \A i \in 2..Len(xs) : ~Lt(xs[i].val, xs[i - 1].val)

\* No density on the grid has a negative reciprocal
NoNegativeReciprocal(ds) == \A i \in 1..Len(ds) : ~Lt(Recip(ds[i].val), F(0))

\* The grid of the method shows no monotonicity violation
NoViolation(self, method) ==
    IF method = "QuantileSumNegativeIncrements"
        THEN NoNegativeIncrement(quantile(self, linspace(Norm(1, 10), Norm(9, 10), 17)))
    ELSE IF method = "SmallMReciprocal"
        THEN NoNegativeReciprocal(DensitiesOn(self, linspace(Norm(1, 10), Norm(9, 10), 9)))
    ELSE ~Lt(QuantileMinimumIncrement(self).val, F(0))

RECURSIVE BasisSum(_, _, _, _)
BasisSum(self, lnp, p05, n) ==
    IF n = 0 THEN F(0)
    ELSE Add(BasisSum(self, lnp, p05, n - 1), Mul(a(self, n), YColumn(n, lnp, p05)))

\* C10: for every term >= 2, every vector of that many coefficients and every p in
\* (0, 1), the unbounded quantile evaluation returns the sum over k = 1..term of
\* a_k times the k-th column function of the Y matrix at p.
C10_QuantileIsBasisSum ==
    (/\ pc = "returned" /\ call.op = "_quantile"
     /\ Lt(F(0), call.p) /\ Lt(call.p, F(1))
     /\ call.force_unbounded \/ boundedness = "False"
     /\ term[1] >= 2 /\ Len(a_vector[1]) = term[1]) =>
        ret = Ok(BasisSum(Self, ln_p_term(call.p), p05_term(call.p), term[1]))

\* The derivative in p of the n-th column function of the Y matrix
BasisDerivative(n, lnp, p05, p1p) ==
    IF n = 2 THEN Recip(p1p)
    ELSE IF n = 3 THEN Add(Div(p05, p1p), lnp)
    ELSE IF n = 4 THEN F(1)
    ELSE IF n % 2 = 1 THEN Mul(F((n - 1) \div 2), Pow(p05, (n - 3) \div 2))
    ELSE Add(Div(Pow(p05, n \div 2 - 1), p1p),
             Mul(Mul(F(n \div 2 - 1), Pow(p05, n \div 2 - 2)), lnp))

\* The sum over k = 2..n of a_k times the derivative of the k-th column function
RECURSIVE DerivativeSum(_, _, _, _, _)
DerivativeSum(self, lnp, p05, p1p, n) ==
    IF n = 1 THEN F(0)
    ELSE Add(DerivativeSum(self, lnp, p05, p1p, n - 1),
             Mul(a(self, n), BasisDerivative(n, lnp, p05, p1p)))

\* C11: for every term >= 2 and every p in (0, 1) the unbounded density evaluation
\* completes, and its reciprocal is the sum over n = 2..term of a_n times the
\* derivative in p of the n-th basis function; and a construction from samples with
\* term >= 6 and the SmallMReciprocal feasibility method, once the linear fit has
\* produced its coefficients, raises nothing.
C11_DensityReciprocalIsDerivativeSum ==
    /\ (/\ pc = "returned" /\ call.op = "densitySmallM"
        /\ Lt(F(0), call.p) /\ Lt(call.p, F(1))
        /\ call.force_unbounded \/ boundedness = "False"
        /\ term[1] >= 2 /\ Len(a_vector[1]) = term[1]) =>
          ret = Ok(Recip(DerivativeSum(Self, ln_p_term(call.p), p05_term(call.p),
                                       p1p_term(call.p), term[1])))
    /\ (/\ ~Supplied /\ Len(trace) >= 2
        /\ feasibility_method = "SmallMReciprocal" /\ term[1] >= 6) =>
          pc # "raised"

====
